---- MODULE Spec2Model ----
(***************************************************************************)
(* Model of the curves library: the affine "linear variable" algebra       *)
(* (include/curves/linear_variable.h) and the polynomial curve             *)
(* (include/curves/polynomial.h, over the contract of curve_abc.h).        *)
(*                                                                         *)
(* Numbers.  The linear-variable part works on integer-valued doubles      *)
(* (sums, differences and integer products are exact on them).  The        *)
(* polynomial part divides, so its doubles are exact rationals extended    *)
(* with the IEEE values +inf, -inf and NaN that a division by zero yields; *)
(* rounding is not modelled.                                               *)
(* size_t.  A size_t value is held as the integer congruent to it modulo   *)
(* 2^64 of least absolute value: cols() - 1 on an empty matrix is -1.      *)
(* Eigen.  A coefficient-wise operation on two dynamic objects of          *)
(* different sizes is guarded only by eigen_assert: a debug build aborts,  *)
(* an NDEBUG build has undefined behaviour.  The build is the variable     *)
(* NDEBUG and the undefined outcomes are a choice (EigenMismatch).         *)
(***************************************************************************)
EXTENDS Integers, Sequences, FiniteSets, TLC

\* Largest dimension of the points, matrices and parameter vectors drawn as inputs.
MaxDim == 1
\* Largest absolute value an entry of a linear variable may reach (guards of the
\* operations that grow entries).
MaxAbs == 1

\* Largest degree of the coefficient matrices and point collections drawn as inputs;
\* derivative orders are drawn from 0..MaxDegree+2.
MaxDegree == 1
\* Interval bounds are drawn from 0..MaxTime, evaluation times from -1..MaxTime+1.
MaxTime == 2

VARIABLES
  Safe,    \* the template parameter Safe of the instantiation
  NDEBUG,  \* the build: TRUE when eigen_assert is compiled out
  lv,      \* the two linear variables the program holds: lv.x and lv.y
  out,     \* what the last operation on linear variables returned or raised
  cur,     \* the polynomial curve the program holds, if one is constructed
  pout     \* what the last operation on polynomials returned or raised

-----------------------------------------------------------------------------
(* Dense integer matrices (stored by columns) and vectors (sequences).      *)

RECURSIVE SeqSum(_)
SeqSum(s) == IF s = <<>> THEN 0 ELSE Head(s) + SeqSum(Tail(s))

Matrix(r, k, f(_, _)) ==
  [rows |-> r, cols |-> k, col |-> [j \in 1..k |-> [i \in 1..r |-> f(i, j)]]]

MatZero(r, k) == Matrix(r, k, LAMBDA i, j : 0)
MatIdentity(r, k) == Matrix(r, k, LAMBDA i, j : IF i = j THEN 1 ELSE 0)
MatFill(r, k, g) == Matrix(r, k, LAMBDA i, j : g)
MatScale(A, s) == Matrix(A.rows, A.cols, LAMBDA i, j : s * A.col[j][i])
MatNeg(A) == MatScale(A, -1)
MatAdd(A, B) == Matrix(A.rows, A.cols, LAMBDA i, j : A.col[j][i] + B.col[j][i])
MatSub(A, B) == Matrix(A.rows, A.cols, LAMBDA i, j : A.col[j][i] - B.col[j][i])
MatSize(A) == A.rows * A.cols
SameDims(A, B) == A.rows = B.rows /\ A.cols = B.cols
MatEntries(A) == {A.col[j][i] : i \in 1..A.rows, j \in 1..A.cols}

VecZero(n) == [i \in 1..n |-> 0]
VecFill(n, g) == [i \in 1..n |-> g]
VecScale(v, s) == [i \in 1..Len(v) |-> s * v[i]]
VecAdd(u, v) == [i \in 1..Len(u) |-> u[i] + v[i]]
VecSub(u, v) == [i \in 1..Len(u) |-> u[i] - v[i]]
VecEntries(v) == {v[i] : i \in 1..Len(v)}
MatVec(A, v) == [i \in 1..A.rows |-> SeqSum([j \in 1..A.cols |-> A.col[j][i] * v[j]])]

\* ceil(sqrt(n)): the Frobenius norm of an integer object, rounded up.  It is
\* 0 exactly when the norm is 0, which is all that norm() < prec reads.
ISqrtCeil(n) == CHOOSE r \in 0..n : r * r >= n /\ (r = 0 \/ (r - 1) * (r - 1) < n)
MatNorm(A) == ISqrtCeil(SeqSum([j \in 1..A.cols |-> SeqSum([i \in 1..A.rows |-> A.col[j][i] * A.col[j][i]])]))
VecNorm(v) == ISqrtCeil(SeqSum([i \in 1..Len(v) |-> v[i] * v[i]]))

\* Eigen::NumTraits<double>::dummy_precision() is 1e-12; on integer entries
\* norm < 1e-12 iff norm < 1.
DummyPrecision == 1

-----------------------------------------------------------------------------
(* Outcomes of an operation: a value, or the exception / abort it ends in.  *)

Ok(v) == [err |-> "none", val |-> v]
Fail(e, v) == [err |-> e, val |-> v]
Fatal == {"eigen_assert", "segfault"}

\* The values an out-of-bounds read may deliver.
Garbage == {0, 1}

\* dst op= src on Eigen objects of different sizes (no resize for a compound
\* assignment).  Debug build: eigen_assert aborts.  NDEBUG build: the loop runs
\* over dst's coefficients and reads src out of bounds; an empty dst is left
\* as it is.
EigenMismatchMat(dst) ==
  IF ~NDEBUG THEN {Fail("eigen_assert", dst)}
  ELSE IF MatSize(dst) = 0 THEN {Ok(dst)}
  ELSE {Fail("segfault", dst)} \cup {Ok(MatFill(dst.rows, dst.cols, g)) : g \in Garbage}

EigenMismatchVec(dst) ==
  IF ~NDEBUG THEN {Fail("eigen_assert", dst)}
  ELSE IF Len(dst) = 0 THEN {Ok(dst)}
  ELSE {Fail("segfault", dst)} \cup {Ok(VecFill(Len(dst), g)) : g \in Garbage}

MatAddAssign(dst, src) ==
  IF SameDims(dst, src) THEN {Ok(MatAdd(dst, src))} ELSE EigenMismatchMat(dst)
MatSubAssign(dst, src) ==
  IF SameDims(dst, src) THEN {Ok(MatSub(dst, src))} ELSE EigenMismatchMat(dst)
VecAddAssign(dst, src) ==
  IF Len(dst) = Len(src) THEN {Ok(VecAdd(dst, src))} ELSE EigenMismatchVec(dst)
VecSubAssign(dst, src) ==
  IF Len(dst) = Len(src) THEN {Ok(VecSub(dst, src))} ELSE EigenMismatchVec(dst)

\* The expression a + b on two vectors: the CwiseBinaryOp takes its size from
\* the right operand.
VecPlus(a, b) ==
  IF Len(a) = Len(b) THEN {Ok(VecAdd(a, b))} ELSE EigenMismatchVec(b)

\* The product B * val: B.cols() must equal val.rows().
MatTimesVec(B, val) ==
  IF B.cols = Len(val) THEN {Ok(MatVec(B, val))} ELSE EigenMismatchVec(VecZero(B.rows))

-----------------------------------------------------------------------------
(* linear_variable                                                          *)

LinVar(B, c, z) == [B |-> B, c |-> c, zero |-> z]

linear_variable_default == LinVar(MatIdentity(0, 0), VecZero(0), TRUE)
linear_variable_constant(c) == LinVar(MatZero(Len(c), Len(c)), c, FALSE)
linear_variable_mixed(B, c) == LinVar(B, c, FALSE)

isZero(w) == w.zero

Zero(dim) == linear_variable_mixed(MatIdentity(dim, dim), VecZero(dim))

size(w) == IF w.zero THEN 0 ELSE IF w.B.cols >= Len(w.c) THEN w.B.cols ELSE Len(w.c)

norm(w) == IF isZero(w) THEN 0 ELSE MatNorm(w.B) + VecNorm(w.c)

\* operator(): linear evaluation.
Evaluate(w, val) ==
  IF isZero(w) THEN {Ok(w.c)}
  ELSE IF Safe /\ w.B.cols # Len(val) THEN {Fail("length_error", <<>>)}
  ELSE UNION { IF p.err # "none" THEN {Fail(p.err, <<>>)}
               ELSE {IF s.err # "none" THEN Fail(s.err, <<>>) ELSE s : s \in VecPlus(p.val, w.c)}
               : p \in MatTimesVec(w.B, val) }

\* The two compound assignments share their shape: the B_ step, then the c_ step.
CompoundSteps(self, Bs, cs, z) ==
  UNION { IF b.err # "none" THEN {Fail(b.err, self)}
          ELSE {IF cc.err # "none" THEN Fail(cc.err, self) ELSE Ok(LinVar(b.val, cc.val, z)) : cc \in cs}
          : b \in Bs }

PlusAssign(self, w1) ==
  IF isZero(w1) THEN {Ok(self)}
  ELSE IF isZero(self)
       THEN CompoundSteps(self, {Ok(w1.B)}, VecAddAssign(self.c, w1.c), isZero(w1))
       ELSE CompoundSteps(self, MatAddAssign(self.B, w1.B), VecAddAssign(self.c, w1.c), self.zero)

MinusAssign(self, w1) ==
  IF isZero(w1) THEN {Ok(self)}
  ELSE IF isZero(self)
       THEN CompoundSteps(self, {Ok(MatNeg(w1.B))}, VecSubAssign(self.c, w1.c), isZero(w1))
       ELSE CompoundSteps(self, MatSubAssign(self.B, w1.B), VecSubAssign(self.c, w1.c), self.zero)

\* operator+ working on w1 itself instead of a fresh mixed variable.
Plus_KeepsFlag(w1, w2) == PlusAssign(w1, w2)

\* The free operators: a fresh mixed variable from w1's parts, then op=.
Plus(w1, w2) == PlusAssign(linear_variable_mixed(w1.B, w1.c), w2)
Minus(w1, w2) == MinusAssign(linear_variable_mixed(w1.B, w1.c), w2)

isApprox(self, other) ==
  {IF d.err # "none" THEN Fail(d.err, FALSE) ELSE Ok(norm(d.val) < DummyPrecision)
   : d \in Minus(self, other)}

-----------------------------------------------------------------------------
(* The inputs of the linear-variable operations.                            *)

Dims == 0..MaxDim
InScalars == {0, 1}
InVectors == UNION {{VecFill(n, s) : s \in InScalars} : n \in Dims}
\* A mixed variable p = B x + c has as many rows in B as entries in c.
InMatrices == UNION {{MatScale(MatIdentity(r, k), s) : s \in InScalars} : r \in Dims, k \in Dims}

LvBounded(w) ==
  \A e \in MatEntries(w.B) \cup VecEntries(w.c) : e >= -MaxAbs /\ e <= MaxAbs

Regs == {"x", "y"}
NoOut == [op |-> "none", err |-> "none", tgt |-> "x", arg |-> <<>>, vec |-> <<>>, flag |-> FALSE]
\* The last result has been taken and the program has not aborted.
Alive == out = NoOut

-----------------------------------------------------------------------------
(* Operations on the linear variables.                                      *)

ConstructDefault ==
  /\ Alive
  /\ \E r \in Regs :
    /\ lv' = [lv EXCEPT ![r] = linear_variable_default]
    /\ out' = [NoOut EXCEPT !.op = "ctor", !.tgt = r]
    /\ UNCHANGED <<Safe, NDEBUG, cur, pout>>

ConstructConstant ==
  /\ Alive
  /\ \E r \in Regs, c \in InVectors :
    /\ lv' = [lv EXCEPT ![r] = linear_variable_constant(c)]
    /\ out' = [NoOut EXCEPT !.op = "ctor", !.tgt = r]
    /\ UNCHANGED <<Safe, NDEBUG, cur, pout>>

ConstructMixed ==
  /\ Alive
  /\ \E r \in Regs, B \in InMatrices, c \in InVectors :
    /\ B.rows = Len(c)
    /\ lv' = [lv EXCEPT ![r] = linear_variable_mixed(B, c)]
    /\ out' = [NoOut EXCEPT !.op = "ctor", !.tgt = r]
    /\ UNCHANGED <<Safe, NDEBUG, cur, pout>>

MakeZero ==
  /\ Alive
  /\ \E r \in Regs, dim \in Dims :
    /\ lv' = [lv EXCEPT ![r] = Zero(dim)]
    /\ out' = [NoOut EXCEPT !.op = "Zero", !.tgt = r]
    /\ UNCHANGED <<Safe, NDEBUG, cur, pout>>

\* lv.x op= lv.y
Compound(name, outcomes) ==
  /\ Alive
  /\ \E o \in outcomes :
    /\ LvBounded(o.val)
    /\ lv' = [lv EXCEPT !.x = o.val]
    /\ out' = [NoOut EXCEPT !.op = name, !.err = o.err]
    /\ UNCHANGED <<Safe, NDEBUG, cur, pout>>

DoPlusAssign == Compound("+=", PlusAssign(lv.x, lv.y))
DoMinusAssign == Compound("-=", MinusAssign(lv.x, lv.y))

\* lv.x = lv.x op lv.y
Free(name, outcomes) ==
  /\ Alive
  /\ \E o \in outcomes :
    /\ LvBounded(o.val)
    /\ lv' = IF o.err = "none" THEN [lv EXCEPT !.x = o.val] ELSE lv
    /\ out' = [NoOut EXCEPT !.op = name, !.err = o.err]
    /\ UNCHANGED <<Safe, NDEBUG, cur, pout>>

DoPlus == Free("+", Plus(lv.x, lv.y))
DoMinus == Free("-", Minus(lv.x, lv.y))

DoEvaluate ==
  /\ Alive
  /\ \E val \in InVectors : \E o \in Evaluate(lv.x, val) :
    /\ out' = [NoOut EXCEPT !.op = "()", !.err = o.err, !.arg = val, !.vec = o.val]
    /\ UNCHANGED <<Safe, NDEBUG, lv, cur, pout>>

DoIsApprox ==
  /\ Alive
  /\ \E o \in isApprox(lv.x, lv.y) :
    /\ out' = [NoOut EXCEPT !.op = "isApprox", !.err = o.err, !.flag = o.val]
    /\ UNCHANGED <<Safe, NDEBUG, lv, cur, pout>>

\* The caller takes the result (or catches the exception) and goes on; after an
\* abort there is nothing to go on with.
Continue ==
  /\ out # NoOut
  /\ out.err \notin Fatal
  /\ out' = NoOut
  /\ UNCHANGED <<Safe, NDEBUG, lv, cur, pout>>


-----------------------------------------------------------------------------
(* Doubles of the polynomial part: <<n, d>> with d > 0 in lowest terms is   *)
(* n/d; <<1, 0>> is +inf, <<-1, 0>> is -inf and <<0, 0>> is NaN.            *)

Abs(a) == IF a < 0 THEN -a ELSE a
Sign(a) == IF a < 0 THEN -1 ELSE IF a > 0 THEN 1 ELSE 0

RECURSIVE Gcd(_, _)
Gcd(a, b) == IF b = 0 THEN a ELSE Gcd(b, a % b)

Q(n, d) ==
  IF d = 0 THEN <<Sign(n), 0>>
  ELSE LET g == Gcd(Abs(n), Abs(d))
           s == IF d < 0 THEN -1 ELSE 1
       IN <<(s * n) \div g, (s * d) \div g>>

QInt(a) == <<a, 1>>
QNaN == <<0, 0>>
QIsFinite(p) == p[2] # 0
QNeg(p) == <<-p[1], p[2]>>

QAdd(p, q) ==
  IF QIsFinite(p) /\ QIsFinite(q) THEN Q(p[1] * q[2] + q[1] * p[2], p[2] * q[2])
  ELSE IF p = QNaN \/ q = QNaN THEN QNaN
  ELSE IF QIsFinite(q) THEN p
  ELSE IF QIsFinite(p) THEN q
  ELSE IF p = q THEN p ELSE QNaN

QSub(p, q) == QAdd(p, QNeg(q))
QMul(p, q) == Q(p[1] * q[1], p[2] * q[2])
QDiv(p, q) ==
  IF q[1] < 0 THEN QNeg(Q(p[1] * q[2], p[2] * (-q[1])))
  ELSE Q(p[1] * q[2], p[2] * q[1])

QVec(v) == [i \in 1..Len(v) |-> QInt(v[i])]
QVecZero(n) == [i \in 1..n |-> QInt(0)]
QVecAdd(u, v) == [i \in 1..Len(u) |-> QAdd(u[i], v[i])]
QVecSub(u, v) == [i \in 1..Len(u) |-> QSub(u[i], v[i])]
QVecScale(v, q) == [i \in 1..Len(v) |-> QMul(v[i], q)]
QVecDiv(v, q) == [i \in 1..Len(v) |-> QDiv(v[i], q)]

\* A coefficient matrix from its columns.
Coeffs(r, columns) == [rows |-> r, cols |-> Len(columns), col |-> columns]
Col(coeff, i) == coeff.col[i + 1]

-----------------------------------------------------------------------------
(* polynomial                                                               *)

Poly(d, coeff, deg, tmin, tmax) ==
  [live |-> TRUE, dim |-> d, coefficients |-> coeff, degree |-> deg, T_min |-> tmin, T_max |-> tmax]

NoCurve ==
  [live |-> FALSE, dim |-> 0, coefficients |-> Coeffs(0, <<>>), degree |-> 0, T_min |-> 0, T_max |-> 0]

\* safe_check(): the exception it throws, or "none".
safe_check(self) ==
  IF Safe THEN
    IF self.T_min > self.T_max THEN "invalid_argument"
    ELSE IF self.coefficients.cols # self.degree + 1 THEN "runtime_error"
    ELSE "none"
  ELSE "none"

\* A constructor's outcome: the object, unless safe_check throws.
Checked(self) ==
  IF safe_check(self) = "none" THEN Ok(self) ELSE Fail(safe_check(self), NoCurve)

\* check_if_not_empty() throws.
IsEmpty(self) == MatSize(self.coefficients) = 0

\* polynomial(): degree_ has no initialiser, its value is indeterminate.
IndeterminateDegrees == -1..MaxDegree
polynomial_default == {Ok(Poly(0, Coeffs(0, <<>>), d, 0, 0)) : d \in IndeterminateDegrees}

\* polynomial(const coeff_t&, min, max)
polynomial_coeffs(coefficients, min, max) ==
  Checked(Poly(coefficients.rows, coefficients, coefficients.cols - 1, min, max))

\* res.col(i) = *cit for a column of dim entries and a point of another size:
\* a block is not resized.  Debug build: eigen_assert.  NDEBUG build: dim
\* entries are copied, read past the end of a shorter point.
ColumnOf(dim, pt) ==
  IF Len(pt) = dim THEN {Ok(pt)}
  ELSE IF ~NDEBUG THEN {Fail("eigen_assert", pt)}
  ELSE IF Len(pt) > dim THEN {Ok(SubSeq(pt, 1, dim))}
  ELSE {Fail("segfault", pt)}
       \cup {Ok(pt \o [i \in 1..(dim - Len(pt)) |-> QInt(g)]) : g \in Garbage}

\* init_coeffs(first, last): the sets of column sequences it can build.
RECURSIVE init_columns(_, _)
init_columns(dim, pts) ==
  IF pts = <<>> THEN {Ok(<<>>)}
  ELSE UNION { IF c.err # "none" THEN {Fail(c.err, <<>>)}
               ELSE {IF rest.err # "none" THEN rest ELSE Ok(<<c.val>> \o rest.val)
                     : rest \in init_columns(dim, Tail(pts))}
               : c \in ColumnOf(dim, Head(pts)) }

init_coeffs(dim, pts) ==
  {IF cs.err # "none" THEN Fail(cs.err, Coeffs(0, <<>>)) ELSE Ok(Coeffs(dim, cs.val))
   : cs \in init_columns(dim, pts)}

\* polynomial(const T_Point&, min, max) and polynomial(In, In, min, max):
\* dim_ is the size of the first point; reading it in an empty collection
\* dereferences the end iterator.
polynomial_points(pts, min, max) ==
  IF pts = <<>> THEN {Fail("segfault", NoCurve)}
  ELSE {IF m.err # "none" THEN Fail(m.err, NoCurve)
        ELSE Checked(Poly(Len(pts[1]), m.val, m.val.cols - 1, min, max))
        : m \in init_coeffs(Len(pts[1]), pts)}

\* polynomial(init, end, min, max): the C0 boundary fit.
polynomial_C0(init, end, min, max) ==
  IF Len(init) # Len(end) THEN {Fail("invalid_argument", NoCurve)}
  ELSE LET coeffs == <<init, QVecDiv(QVecSub(end, init), QInt(max - min))>>
       IN {IF m.err # "none" THEN Fail(m.err, NoCurve)
           ELSE Checked(Poly(Len(init), m.val, 1, min, max))
           : m \in init_coeffs(Len(init), coeffs)}

\* The system matrices of the C1 and C2 boundary fits, by rows.
BoundaryMatrix4(T) ==
  << <<1, 0, 0, 0>>,
     <<1, T, T * T, T * T * T>>,
     <<0, 1, 0, 0>>,
     <<0, 1, 2 * T, 3 * T * T>> >>

BoundaryMatrix6(T) ==
  << <<1, 0, 0, 0, 0, 0>>,
     <<1, T, T * T, T * T * T, T * T * T * T, T * T * T * T * T>>,
     <<0, 1, 0, 0, 0, 0>>,
     <<0, 1, 2 * T, 3 * T * T, 4 * T * T * T, 5 * T * T * T * T>>,
     <<0, 0, 2, 0, 0, 0>>,
     <<0, 0, 2, 6 * T, 12 * T * T, 20 * T * T * T>> >>

\* m.inverse() * bc for one dimension.  For T # 0 the system has the one
\* solution written here (BoundarySolved checks it against the matrix); for
\* T = 0 the matrix is singular and the inverse's entries are divisions by a
\* zero determinant or pivot: not-a-number coefficients.
Solve4(bc, T) ==
  IF T = 0 THEN [k \in 1..4 |-> QNaN]
  ELSE LET d == bc[2] - bc[1]
       IN << QInt(bc[1]),
             QInt(bc[3]),
             Q(3 * d - (2 * bc[3] + bc[4]) * T, T * T),
             Q((bc[3] + bc[4]) * T - 2 * d, T * T * T) >>

Solve6(bc, T) ==
  IF T = 0 THEN [k \in 1..6 |-> QNaN]
  ELSE LET d == bc[2] - bc[1]
       IN << QInt(bc[1]),
             QInt(bc[3]),
             Q(bc[5], 2),
             Q(20 * d - (8 * bc[4] + 12 * bc[3]) * T - (3 * bc[5] - bc[6]) * T * T,
               2 * T * T * T),
             Q((14 * bc[4] + 16 * bc[3]) * T + (3 * bc[5] - 2 * bc[6]) * T * T - 30 * d,
               2 * T * T * T * T),
             Q(12 * d - 6 * (bc[4] + bc[3]) * T - (bc[5] - bc[6]) * T * T,
               2 * T * T * T * T * T) >>

RECURSIVE QDot(_, _)
QDot(row, sol) ==
  IF row = <<>> THEN QInt(0)
  ELSE QAdd(QMul(QInt(Head(row)), Head(sol)), QDot(Tail(row), Tail(sol)))

BoundarySolved(m, sol, bc) == \A k \in 1..Len(bc) : QDot(m[k], sol) = QInt(bc[k])

\* The coefficient matrix whose row i is rows[i].
FromRows(dim, n, rows) == Coeffs(dim, [j \in 1..n |-> [i \in 1..dim |-> rows[i][j]]])

\* polynomial(init, d_init, end, d_end, min, max): the C1 boundary fit.
polynomial_C1(init, d_init, end, d_end, min, max) ==
  IF Len(init) # Len(end) \/ Len(init) # Len(d_init) \/ Len(init) # Len(d_end)
  THEN Fail("invalid_argument", NoCurve)
  ELSE LET rows == [i \in 1..Len(init) |->
                      Solve4(<<init[i], end[i], d_init[i], d_end[i]>>, max - min)]
       IN Checked(Poly(Len(init), FromRows(Len(init), 4, rows), 3, min, max))

\* polynomial(init, d_init, dd_init, end, d_end, dd_end, min, max): the C2 fit.
polynomial_C2(init, d_init, dd_init, end, d_end, dd_end, min, max) ==
  IF \/ Len(init) # Len(end) \/ Len(init) # Len(d_init) \/ Len(init) # Len(d_end)
     \/ Len(init) # Len(dd_init) \/ Len(init) # Len(dd_end)
  THEN Fail("invalid_argument", NoCurve)
  ELSE LET rows == [i \in 1..Len(init) |->
                      Solve6(<<init[i], end[i], d_init[i], d_end[i], dd_init[i], dd_end[i]>>,
                             max - min)]
       IN Checked(Poly(Len(init), FromRows(Len(init), 6, rows), 5, min, max))

\* polynomial(const polynomial&)
polynomial_copy(other) ==
  Poly(other.dim, other.coefficients, other.degree, other.T_min, other.T_max)

\* Horner's loop of operator(): h = dt * h + col(i), i = degree - 1 down to 0.
RECURSIVE Horner(_, _, _, _)
Horner(self, dt, h, i) ==
  IF i < 0 THEN h
  ELSE Horner(self, dt, QVecAdd(QVecScale(h, dt), Col(self.coefficients, i)), i - 1)

\* The range check with the upper bound forgotten.
OutOfRange_LowerOnly(self, t) == t < self.T_min

OutOfRange(self, t) == t < self.T_min \/ t > self.T_max

\* operator()(t)
Eval(self, t) ==
  IF IsEmpty(self) THEN Fail("runtime_error", <<>>)
  ELSE IF OutOfRange(self, t) /\ Safe THEN Fail("invalid_argument", <<>>)
  ELSE Ok(Horner(self, QInt(t - self.T_min), Col(self.coefficients, self.degree),
                 self.degree - 1))

RECURSIVE factLoop(_, _, _, _)
factLoop(n, order, i, res) ==
  IF i < order THEN factLoop(n, order, i + 1, res * (n - i)) ELSE res
fact(n, order) == factLoop(n, order, 0, 1)

\* The loop of derivate: i = order .. degree, cdt = dt^(i - order).
RECURSIVE derivateLoop(_, _, _, _, _, _)
derivateLoop(self, order, dt, i, cdt, currentPoint) ==
  IF i < self.degree + 1
  THEN derivateLoop(self, order, dt, i + 1, QMul(cdt, dt),
         QVecAdd(currentPoint,
                 QVecScale(QVecScale(Col(self.coefficients, i), cdt), QInt(fact(i, order)))))
  ELSE currentPoint

\* derivate(t, order)
derivate(self, t, order) ==
  IF IsEmpty(self) THEN Fail("runtime_error", <<>>)
  ELSE IF OutOfRange(self, t) /\ Safe THEN Fail("invalid_argument", <<>>)
  ELSE Ok(derivateLoop(self, order, QInt(t - self.T_min), order, QInt(1), QVecZero(self.dim)))

\* deriv_coeff without the factor (i + 1).
deriv_coeff_Unscaled(coeff) ==
  IF coeff.cols = 1 THEN Coeffs(coeff.rows, <<QVecZero(coeff.rows)>>)
  ELSE Coeffs(coeff.rows, [i \in 1..(coeff.cols - 1) |-> Col(coeff, i)])

\* deriv_coeff keeping the constant column instead of returning the zero column.
deriv_coeff_KeepsConstant(coeff) ==
  IF coeff.cols = 1 THEN coeff
  ELSE Coeffs(coeff.rows,
              [i \in 1..(coeff.cols - 1) |-> QVecScale(Col(coeff, i), QInt(i))])

deriv_coeff(coeff) ==
  IF coeff.cols = 1 THEN Coeffs(coeff.rows, <<QVecZero(coeff.rows)>>)
  ELSE Coeffs(coeff.rows,
              [i \in 1..(coeff.cols - 1) |-> QVecScale(Col(coeff, i), QInt(i))])

\* compute_derivate returning its curve on the interval moved to start at 0.
RECURSIVE compute_derivate_Rebased(_, _)
compute_derivate_Rebased(self, order) ==
  IF IsEmpty(self) THEN Fail("runtime_error", NoCurve)
  ELSE IF order = 0
       THEN Ok(Poly(self.dim, self.coefficients, self.degree, 0, self.T_max - self.T_min))
  ELSE LET deriv == polynomial_coeffs(deriv_coeff(self.coefficients), self.T_min, self.T_max)
       IN IF deriv.err # "none" THEN deriv ELSE compute_derivate_Rebased(deriv.val, order - 1)

\* compute_derivate(order)
RECURSIVE compute_derivate(_, _)
compute_derivate(self, order) ==
  IF IsEmpty(self) THEN Fail("runtime_error", NoCurve)
  ELSE IF order = 0 THEN Ok(polynomial_copy(self))
  ELSE LET deriv == polynomial_coeffs(deriv_coeff(self.coefficients), self.T_min, self.T_max)
       IN IF deriv.err # "none" THEN deriv ELSE compute_derivate(deriv.val, order - 1)

-----------------------------------------------------------------------------
(* The inputs of the polynomial operations.                                 *)

Times == 0..MaxTime
EvalTimes == -1..(MaxTime + 1)
Orders == 0..(MaxDegree + 2)
PointValues == {0, 1}

RECURSIVE PointsOfDim(_)
PointsOfDim(n) ==
  IF n = 0 THEN {<<>>} ELSE {Append(p, v) : p \in PointsOfDim(n - 1), v \in PointValues}

\* All points of dimension 0..MaxDim, and the ones the C1 and C2 fits draw.
Points == UNION {PointsOfDim(n) : n \in Dims}
FitPoints == UNION {{VecFill(n, s) : s \in PointValues} : n \in Dims}

RECURSIVE PointLists(_)
PointLists(n) ==
  IF n = 0 THEN {<<>>} ELSE {Append(l, QVec(p)) : l \in PointLists(n - 1), p \in Points}

InCollections == UNION {PointLists(n) : n \in 0..(MaxDegree + 1)}

\* Coefficient matrices of rows x cols 0/1 entries, cols up to MaxDegree + 1.
RECURSIVE ColumnLists(_, _)
ColumnLists(r, n) ==
  IF n = 0 THEN {<<>>}
  ELSE {Append(l, QVec(p)) : l \in ColumnLists(r, n - 1), p \in PointsOfDim(r)}

InCoefficients ==
  UNION {{Coeffs(r, cs) : cs \in ColumnLists(r, n)} : r \in Dims, n \in 0..(MaxDegree + 1)}

\* op, err: the operation and what it raised; t, order: its arguments; dims: the
\* dimensions of the points a constructor was given; args: the points the C0
\* constructor was given; point, curve: the value returned.
NoPout ==
  [op |-> "none", err |-> "none", t |-> 0, order |-> 0, dims |-> <<>>, args |-> <<>>,
   point |-> <<>>, curve |-> NoCurve]
DimsOf(pts) == [i \in 1..Len(pts) |-> Len(pts[i])]
\* The last result has been taken and the program has not aborted.
PAlive == pout = NoPout

-----------------------------------------------------------------------------
(* Operations on the polynomial curve.                                      *)

\* A constructor given points of dimensions dims ran with outcome o.
Constructed(name, dims, args, o) ==
  /\ cur' = IF o.err = "none" THEN o.val ELSE NoCurve
  /\ pout' = [NoPout EXCEPT !.op = name, !.err = o.err, !.dims = dims, !.args = args]
  /\ UNCHANGED <<Safe, NDEBUG, lv, out>>

\* No curve is held and the program is free to construct one.
CanConstruct == PAlive /\ ~cur.live

ConstructEmpty ==
  /\ CanConstruct
  /\ \E o \in polynomial_default : Constructed("polynomial()", <<>>, <<>>, o)

ConstructFromCoefficients ==
  /\ CanConstruct
  /\ \E coefficients \in InCoefficients, min \in Times, max \in Times :
       Constructed("polynomial(coeff)", <<>>, <<>>,
                   polynomial_coeffs(coefficients, min, max))

ConstructFromCollection ==
  /\ CanConstruct
  /\ \E pts \in InCollections, min \in Times, max \in Times :
       \E o \in polynomial_points(pts, min, max) :
         Constructed("polynomial(T_Point)", DimsOf(pts), <<>>, o)

ConstructFromRange ==
  /\ CanConstruct
  /\ \E pts \in InCollections, min \in Times, max \in Times :
       \E o \in polynomial_points(pts, min, max) :
         Constructed("polynomial(In,In)", DimsOf(pts), <<>>, o)

ConstructC0 ==
  /\ CanConstruct
  /\ \E init \in Points, end \in Points, min \in Times, max \in Times :
       \E o \in polynomial_C0(QVec(init), QVec(end), min, max) :
         Constructed("polynomial(C0)", DimsOf(<<init, end>>), <<QVec(init), QVec(end)>>, o)

ConstructC1 ==
  /\ CanConstruct
  /\ \E init \in FitPoints, d_init \in FitPoints, end \in FitPoints, d_end \in FitPoints,
        min \in Times, max \in Times :
       Constructed("polynomial(C1)", DimsOf(<<init, d_init, end, d_end>>), <<>>,
                   polynomial_C1(init, d_init, end, d_end, min, max))

ConstructC2 ==
  /\ CanConstruct
  /\ \E init \in FitPoints, d_init \in FitPoints, dd_init \in FitPoints,
        end \in FitPoints, d_end \in FitPoints, dd_end \in FitPoints,
        min \in Times, max \in Times :
       Constructed("polynomial(C2)",
                   DimsOf(<<init, d_init, dd_init, end, d_end, dd_end>>), <<>>,
                   polynomial_C2(init, d_init, dd_init, end, d_end, dd_end, min, max))

\* ~polynomial()
Destroy ==
  /\ PAlive
  /\ cur.live
  /\ cur' = NoCurve
  /\ pout' = NoPout
  /\ UNCHANGED <<Safe, NDEBUG, lv, out>>

\* The caller takes the result (or catches the exception) and goes on; after an
\* abort there is nothing to go on with.
PContinue ==
  /\ pout # NoPout
  /\ pout.err \notin Fatal
  /\ pout' = NoPout
  /\ UNCHANGED <<Safe, NDEBUG, lv, out, cur>>

\* polynomial(const polynomial&) of the curve held
DoCopy ==
  /\ PAlive
  /\ cur.live
  /\ pout' = [NoPout EXCEPT !.op = "copy", !.curve = polynomial_copy(cur)]
  /\ UNCHANGED <<Safe, NDEBUG, lv, out, cur>>

DoEval ==
  /\ PAlive
  /\ cur.live
  /\ \E t \in EvalTimes :
    /\ \E o \in {Eval(cur, t)} :
         pout' = [NoPout EXCEPT !.op = "()", !.err = o.err, !.t = t, !.point = o.val]
    /\ UNCHANGED <<Safe, NDEBUG, lv, out, cur>>

DoDerivate ==
  /\ PAlive
  /\ cur.live
  /\ \E t \in EvalTimes, order \in Orders :
    /\ \E o \in {derivate(cur, t, order)} :
         pout' = [NoPout EXCEPT !.op = "derivate", !.err = o.err, !.t = t,
                                !.order = order, !.point = o.val]
    /\ UNCHANGED <<Safe, NDEBUG, lv, out, cur>>

DoComputeDerivate ==
  /\ PAlive
  /\ cur.live
  /\ \E order \in Orders :
    /\ \E o \in {compute_derivate(cur, order)} :
         pout' = [NoPout EXCEPT !.op = "compute_derivate", !.err = o.err,
                                !.order = order, !.curve = o.val]
    /\ UNCHANGED <<Safe, NDEBUG, lv, out, cur>>

-----------------------------------------------------------------------------
(* Scaling of linear variables.                                             *)

\* The divisors of operator/= and operator/: those by which every entry of the
\* model's integer matrices divides exactly.  (Other divisors, 0 included,
\* change the entries to values outside the integers and nothing else.)
Divisors == {-1, 1}

\* e / d for a d that divides e.
ExactDiv(e, d) == CHOOSE q \in (-Abs(e))..Abs(e) : q * d = e
MatDiv(A, d) == Matrix(A.rows, A.cols, LAMBDA i, j : ExactDiv(A.col[j][i], d))
VecDiv(v, d) == [i \in 1..Len(v) |-> ExactDiv(v[i], d)]

\* operator*=: B_ *= d; c_ *= d.
TimesAssign(self, d) == LinVar(MatScale(self.B, d), VecScale(self.c, d), self.zero)

\* operator/=: B_ /= d; c_ /= d.
DivideAssign(self, d) == LinVar(MatDiv(self.B, d), VecDiv(self.c, d), self.zero)

\* operator* (k * w and w * k) and operator/: a fresh mixed variable, then op=.
Scaled(w, k) == TimesAssign(linear_variable_mixed(w.B, w.c), k)
Divided(w, k) == DivideAssign(linear_variable_mixed(w.B, w.c), k)

\* lv.x = res, the result of the scaling operation name by k.
Scaling(name, k, res) ==
  /\ LvBounded(res)
  /\ lv' = [lv EXCEPT !.x = res]
  /\ out' = [NoOut EXCEPT !.op = name, !.arg = <<k>>]
  /\ UNCHANGED <<Safe, NDEBUG, cur, pout>>

DoTimesAssign == Alive /\ \E k \in InScalars : Scaling("*=", k, TimesAssign(lv.x, k))
DoDivideAssign == Alive /\ \E k \in Divisors : Scaling("/=", k, DivideAssign(lv.x, k))
DoTimes == Alive /\ \E k \in InScalars : Scaling("*", k, Scaled(lv.x, k))
DoDivide == Alive /\ \E k \in Divisors : Scaling("/", k, Divided(lv.x, k))

-----------------------------------------------------------------------------
(* Specifications.                                                          *)

vars == <<Safe, NDEBUG, lv, out, cur, pout>>

Init ==
  /\ Safe \in BOOLEAN
  /\ NDEBUG \in BOOLEAN
  /\ lv = [x |-> linear_variable_default, y |-> linear_variable_default]
  /\ out = NoOut
  /\ cur = NoCurve
  /\ pout = NoPout

NextLV ==
  \/ ConstructDefault
  \/ ConstructConstant
  \/ ConstructMixed
  \/ MakeZero
  \/ DoPlusAssign
  \/ DoMinusAssign
  \/ DoPlus
  \/ DoMinus
  \/ DoTimesAssign
  \/ DoDivideAssign
  \/ DoTimes
  \/ DoDivide
  \/ DoEvaluate
  \/ DoIsApprox
  \/ Continue

NextPoly ==
  \/ ConstructEmpty
  \/ ConstructFromCoefficients
  \/ ConstructFromCollection
  \/ ConstructFromRange
  \/ ConstructC0
  \/ ConstructC1
  \/ ConstructC2
  \/ Destroy
  \/ DoCopy
  \/ DoEval
  \/ DoDerivate
  \/ DoComputeDerivate
  \/ PContinue

\* The program working on linear variables.
SpecLV == Init /\ [][NextLV]_vars

\* The program working on a polynomial curve.
SpecPoly == Init /\ [][NextPoly]_vars

-----------------------------------------------------------------------------
(* Claims on the linear variables.                                          *)

\* (Zero() + w).isApprox(w)
ZeroPlusApprox(w) ==
  UNION { IF s.err # "none" THEN {Fail(s.err, FALSE)} ELSE isApprox(s.val, w)
          : s \in Plus(Zero(0), w) }

\* (w - w).isApprox(Zero())
SelfMinusApprox(w) ==
  UNION { IF d.err # "none" THEN {Fail(d.err, FALSE)} ELSE isApprox(d.val, Zero(0))
          : d \in Minus(w, w) }

\* (a + b)(v)
EvaluationOfSum(a, b, v) ==
  UNION { IF s.err # "none" THEN {Fail(s.err, <<>>)} ELSE Evaluate(s.val, v)
          : s \in Plus(a, b) }

\* a(v) + b(v)
SumOfEvaluations(a, b, v) ==
  UNION { IF p.err # "none" THEN {Fail(p.err, <<>>)}
          ELSE UNION { IF q.err # "none" THEN {Fail(q.err, <<>>)}
                       ELSE {IF r.err # "none" THEN Fail(r.err, <<>>) ELSE r : r \in VecPlus(p.val, q.val)}
                       : q \in Evaluate(b, v) }
          : p \in Evaluate(a, v) }

\* v has the dimension w evaluates at (a zero-flagged w ignores v).
Matching(w, v) == isZero(w) \/ w.B.cols = Len(v)

\* C1: for every linear variable w the program can hold, (Zero() + w).isApprox(w)
\* raises nothing and returns true.
C1_ZeroPlusIsIdentity ==
  \A r \in Regs : \A o \in ZeroPlusApprox(lv[r]) : o.err = "none" /\ o.val = TRUE

\* C2: for every linear variable w the program can hold, (w - w).isApprox(Zero())
\* raises nothing and returns true.
C2_SelfMinusIsZero ==
  \A r \in Regs : \A o \in SelfMinusApprox(lv[r]) : o.err = "none" /\ o.val = TRUE

\* C3: for the linear variables a = lv.x, b = lv.y and every parameter vector v of
\* matching dimension, (a + b)(v) returns a value, and it is a(v) + b(v).
C3_EvaluationIsAdditive ==
  \A v \in InVectors :
    Matching(lv.x, v) /\ Matching(lv.y, v) =>
      \A l \in EvaluationOfSum(lv.x, lv.y, v) :
        /\ l.err = "none"
        /\ \A r \in SumOfEvaluations(lv.x, lv.y, v) : r.err = "none" => l.val = r.val

\* C4: the variable Zero(d) returns is zero-flagged and approximately equal to the
\* default-constructed zero element, for every d.
C4_ZeroFactoryIsZero ==
  out.op = "Zero" =>
    /\ isZero(lv[out.tgt])
    /\ \A o \in isApprox(lv[out.tgt], linear_variable_default) : o.err = "none" /\ o.val = TRUE

-----------------------------------------------------------------------------
(* Claims on the polynomial curve.                                          *)

\* The points a constructor was given do not all have one dimension.
Mixed(dims) == \E i \in 1..Len(dims), j \in 1..Len(dims) : dims[i] # dims[j]
InRange(self, t) == self.T_min <= t /\ t <= self.T_max
PointConstructors ==
  {"polynomial(T_Point)", "polynomial(In,In)", "polynomial(C0)", "polynomial(C1)",
   "polynomial(C2)"}

\* The value of the polynomial with the coefficient columns coeff at dt, term
\* by term: sum of col(i) * dt^i.
RECURSIVE PowerSum(_, _, _, _)
PowerSum(coeff, dt, i, p) ==
  IF i >= coeff.cols THEN QVecZero(coeff.rows)
  ELSE QVecAdd(QVecScale(Col(coeff, i), p), PowerSum(coeff, dt, i + 1, QMul(p, dt)))

\* The coefficients differentiated order times.
RECURSIVE Differentiated(_, _)
Differentiated(coeff, order) ==
  IF order = 0 THEN coeff ELSE Differentiated(deriv_coeff(coeff), order - 1)

\* The value the polynomial's order-th derivative has at t, inside the
\* interval or not.
Extrapolated(self, t, order) ==
  PowerSum(Differentiated(self.coefficients, order), QInt(t - self.T_min), 0, QInt(1))

\* C5: the curve compute_derivate(order) returned for a non-empty curve evaluates,
\* at every t of [T_min, T_max], to the point derivate(t, order) of the source.
C5_DerivativeCurveMatchesDerivate ==
  (pout.op = "compute_derivate" /\ ~IsEmpty(cur)) =>
    /\ pout.err = "none"
    /\ \A t \in EvalTimes :
         InRange(cur, t) =>
           /\ Eval(pout.curve, t).err = "none"
           /\ Eval(pout.curve, t) = derivate(cur, t, pout.order)

C5_Witness ==
  /\ pout.op = "compute_derivate"
  /\ ~IsEmpty(cur)
  /\ pout.order > cur.degree
  /\ cur.degree >= 1
  /\ \E t \in EvalTimes : InRange(cur, t) /\ t # cur.T_min

C7_MixedDimensionsRejected ==
  (pout.op \in PointConstructors /\ Mixed(pout.dims)) =>
    pout.err = "invalid_argument" /\ ~cur.live

\* C8: a curve the two-point constructor built on T_min <= T_max, from points
\* of one dimension (here: with at least one coordinate), evaluates to init at
\* T_min and to end at T_max.
C8_PassesThroughEndpoints ==
  (/\ pout.op = "polynomial(C0)" /\ pout.err = "none"
   /\ cur.dim >= 1 /\ cur.T_min <= cur.T_max) =>
    /\ Eval(cur, cur.T_min) = Ok(pout.args[1])
    /\ Eval(cur, cur.T_max) = Ok(pout.args[2])

\* The invariant of a curve object.
Consistent(self) == self.T_min <= self.T_max /\ self.coefficients.cols = self.degree + 1

\* C9: in safe mode every curve object that exists (constructed, copied or
\* returned by compute_derivate) has T_min <= T_max and degree + 1 columns.
C9_SafeModeInvariant ==
  Safe =>
    /\ cur.live => Consistent(cur)
    /\ pout.curve.live => Consistent(pout.curve)

\* What C10 says compute_derivate returns: no error, and the degree-0 zero curve.
IsZeroCurve(o, self) ==
  /\ o.err = "none"
  /\ o.curve.degree = 0
  /\ o.curve.coefficients = Coeffs(self.dim, <<QVecZero(self.dim)>>)
  /\ \A t \in EvalTimes : InRange(self, t) => Eval(o.curve, t) = Ok(QVecZero(self.dim))

\* C10 as claimed: compute_derivate(order) of a curve of degree d (d + 1
\* coefficient columns) with order >= d + 1 returns the degree-0 zero curve.
C10_HighOrderIsZeroCurve ==
  (/\ pout.op = "compute_derivate"
   /\ cur.degree >= 0 /\ cur.coefficients.cols = cur.degree + 1
   /\ pout.order >= cur.degree + 1) => IsZeroCurve(pout, cur)

\* C10 amended: the same for a non-empty curve (a curve without coefficients,
\* one of dimension 0 included, raises runtime_error instead).
C10_HighOrderIsZeroCurveWhenNotEmpty ==
  (/\ pout.op = "compute_derivate"
   /\ ~IsEmpty(cur)
   /\ pout.order >= cur.degree + 1) => IsZeroCurve(pout, cur)

C10_Witness ==
  /\ pout.op = "compute_derivate"
  /\ ~IsEmpty(cur)
  /\ cur.degree >= 1
  /\ pout.order > cur.degree + 1
  /\ \E i \in 1..cur.dim : Col(cur.coefficients, cur.degree)[i] # QInt(0)

-----------------------------------------------------------------------------
(* Claims on the evaluation and the arithmetic of linear variables.         *)

\* B * x + c where the sizes fit.
AffineValue(w, x) == VecAdd(MatVec(w.B, x), w.c)

\* C11: operator() on a zero-flagged variable returns c for every x and raises
\* nothing; on a non-zero-flagged one, in safe mode, it raises length_error
\* exactly when B.cols() differs from x's length, and returns B * x + c when
\* they are the same.
C11_EvaluationContract ==
  (out.op = "()") =>
    IF isZero(lv.x) THEN out.err = "none" /\ out.vec = lv.x.c
    ELSE Safe =>
           /\ (out.err = "length_error") <=> (lv.x.B.cols # Len(out.arg))
           /\ (lv.x.B.cols = Len(out.arg)) =>
                 /\ out.err = "none"
                 /\ Len(out.vec) = lv.x.B.rows
                 /\ out.vec = AffineValue(lv.x, out.arg)

\* A step in which lv.x += lv.y runs.
PlusAssignStep == out.op = "none" /\ out'.op = "+="

\* a and b evaluate alike at every parameter vector.
EvaluateAlike(a, b) == \A v \in InVectors : Evaluate(a, v) = Evaluate(b, v)

\* What C12 says of a += b, a before and a2 after the operation.
PlusAssignContract(a, b, a2, err) ==
  IF isZero(b) THEN err = "none" /\ a2 = a
  ELSE IF isZero(a)
       THEN /\ err = "none"
            /\ a2.B = b.B
            /\ a2.zero = b.zero
            /\ Len(a2.c) = Len(b.c)
            /\ (Len(a.c) = Len(b.c)) => a2.c = VecAdd(a.c, b.c)
            /\ EvaluateAlike(a2, b)
       ELSE (SameDims(a.B, b.B) /\ Len(a.c) = Len(b.c)) =>
              /\ err = "none"
              /\ a2.B = MatAdd(a.B, b.B)
              /\ a2.c = VecAdd(a.c, b.c)
              /\ ~a2.zero

\* C12: a += b leaves a unchanged when b is zero-flagged; gives a zero-flagged
\* a the B and the flag of a non-zero-flagged b and the constant a.c + b.c, so
\* that a then evaluates like b; and otherwise adds B and c component-wise and
\* keeps the flag non-zero.
C12_PlusAssignContract ==
  [][PlusAssignStep => PlusAssignContract(lv.x, lv.y, lv'.x, out'.err)]_vars

-----------------------------------------------------------------------------
(* Claims on the frame of compute_derivate.                                 *)

\* A step in which compute_derivate runs on the curve held.
ComputeDerivateStep == pout.op = "none" /\ pout'.op = "compute_derivate"

\* C13: compute_derivate(order) on a non-empty curve raises nothing, leaves the
\* source's coefficients, degree, dimension, T_min and T_max as they were, and
\* returns a curve with the source's T_min, T_max and dimension, which for
\* order 0 has the source's coefficients and degree as well.
C13_ComputeDerivateFrame ==
  [][(ComputeDerivateStep /\ ~IsEmpty(cur)) =>
       /\ pout'.err = "none"
       /\ cur' = cur
       /\ pout'.curve.live
       /\ pout'.curve.T_min = cur.T_min
       /\ pout'.curve.T_max = cur.T_max
       /\ pout'.curve.dim = cur.dim
       /\ pout'.curve.coefficients.rows = cur.dim
       /\ (pout'.order = 0) =>
             /\ pout'.curve.coefficients = cur.coefficients
             /\ pout'.curve.degree = cur.degree]_vars

C13_Witness ==
  /\ pout.op = "compute_derivate"
  /\ pout.err = "none"
  /\ pout.order >= 1
  /\ cur.degree >= 1
  /\ cur.T_min >= 1
  /\ cur.T_min < cur.T_max
  /\ pout.curve.live
  /\ pout.curve.coefficients # cur.coefficients
  /\ pout.curve.T_min = cur.T_min

-----------------------------------------------------------------------------
(* Claims on the zero flag.                                                 *)

CompoundOps == {"+=", "-=", "*=", "/="}
FreeOps == {"+", "-", "*", "/"}

\* A step in which one of the arithmetic operations runs.
ArithmeticStep == out.op = "none" /\ out'.op \in CompoundOps \cup FreeOps

\* C14: no arithmetic operation turns a non-zero-flagged variable into a
\* zero-flagged one; a variable that becomes zero-flagged, or a zero-flagged
\* one that changes, is the default constructor's; and the result of every
\* free operator is non-zero-flagged.
C14_ZeroFlagOnlyClears ==
  [][/\ \A r \in Regs :
          /\ (ArithmeticStep /\ ~isZero(lv[r])) => ~isZero(lv'[r])
          /\ (isZero(lv'[r]) /\ lv'[r] # lv[r]) =>
                out'.op = "ctor" /\ lv'[r] = linear_variable_default
     /\ (out.op = "none" /\ out'.op \in FreeOps /\ out'.err = "none") => ~isZero(lv'.x)
    ]_vars

\* x scaled by 0 in place: all its entries are 0 and its flag is still clear.
C14_Witness ==
  /\ out.op = "*="
  /\ out.arg = <<0>>
  /\ lv.x.B.rows >= 1
  /\ norm(lv.x) = 0
  /\ ~isZero(lv.x)

====
